---- MODULE Spec2Model ----
(***************************************************************************)
(* The accessible single-select dropdown shared by CategoryFilter.tsx and  *)
(* SortFilter (src/unnamed/part_000): the open/closed flag owned by the     *)
(* component, the selected value owned by the Host, the change             *)
(* notifications sent to the Host and the keyboard focus; and the form of   *)
(* the password-reset page, Forgotpassword.tsx.                            *)
(*                                                                         *)
(* Strings are modelled by what the code does with them: option values are *)
(* compared with === only, so they are the atoms 1..MaxN (0 is a value no  *)
(* option carries); labels are tested for emptiness by || and ??, so they  *)
(* are sequences of characters, <<>> being the empty string "".            *)
(***************************************************************************)
EXTENDS Integers, Sequences, FiniteSets, TLC

\* Bounds of the model.
MaxN == 3           \* longest OptionSet
MaxFired == 2       \* longest log of change notifications
MaxClicks == 3      \* longest counted sequence of trigger clicks from mount
MaxSubmits == 3     \* most submits of the password-reset form
MaxEmailLen == 4    \* longest text typed into the email field

Values == 1..MaxN
SelectedValues == 0..MaxN

Max(a, b) == IF a >= b THEN a ELSE b

LabelOf(v) == <<v>>

\* CategoryFilter's placeholder prop ("All Categories" unless the Host sets it).
placeholder == <<0>>

Option == [value : Values, label : {<<>>} \cup {LabelOf(w) : w \in Values}]

UniqueValues(opts) == \A a, b \in 1..Len(opts) : a # b => opts[a].value # opts[b].value

\* The OptionSets a Host may pass to CategoryFilter: ordered, unique by value,
\* each label either empty or the text of its value.
CategoryOptionSets ==
    {opts \in UNION {[1..k -> Option] : k \in 0..MaxN} :
        /\ UniqueValues(opts)
        /\ \A a \in 1..Len(opts) : opts[a].label \in {<<>>, LabelOf(opts[a].value)}}

\* SortFilter builds its own two options from the labels prop:
\* value 1 is "mostRecent", value 2 is "oldest".
SortLabels == [mostRecent : {<<>>, LabelOf(1)}, oldest : {<<>>, LabelOf(2)}]

SortOptions(labels) ==
    << [value |-> 1, label |-> labels.mostRecent],
       [value |-> 2, label |-> labels.oldest] >>

SortOptionSets == {SortOptions(l) : l \in SortLabels}

\* No option has an empty label.
Labelled(opts) == \A a \in 1..Len(opts) : opts[a].label # <<>>

Keys == {"Escape", "ArrowDown", "ArrowUp", "Enter", " "}
ActivationKeys == {"Enter", " "}

VARIABLES
    site,           \* which component: "category" or "sort"
    options,        \* the OptionSet of the current render
    selected,       \* the selected prop of the current render (Host-owned)
    isOpen,         \* useState(false)
    focus,          \* the element holding keyboard focus
    effectPending,  \* the useEffect on [isOpen] has been scheduled, not yet run
    fired,          \* log of the values passed to onChange, oldest first
    applied,        \* how many entries of fired the Host has applied, in order
    threw,          \* the last handler ended in an uncaught TypeError
    lastEvent,      \* the last event handled, with what it was given
    runStart,       \* index the current run of ArrowDown presses started from
    runLen,         \* presses in the current run of ArrowDown presses
    runBase,        \* Len(fired) when the current run started
    clicks,         \* trigger clicks since mount while nothing else was done
    sort,           \* a SortFilter mounted beside a CategoryFilter
    email,          \* Forgotpassword: useState("")
    message,        \* Forgotpassword: useState("")
    error,          \* Forgotpassword: useState("")
    isLoading,      \* Forgotpassword: useState(false)
    request,        \* the POST awaiting its response: <<>> or <<body>>
    posts,          \* how many POSTs the page has issued
    formEvent       \* the last step of the reset flow, with what it was given

dropdownVars == <<site, options, selected, isOpen, focus, effectPending, fired,
                  applied, threw, lastEvent, runStart, runLen, runBase>>

formVars == <<email, message, error, isLoading, request, posts, formEvent>>

vars == <<site, options, selected, isOpen, focus, effectPending, fired,
          applied, threw, lastEvent, runStart, runLen, runBase, clicks, sort,
          email, message, error, isLoading, request, posts, formEvent>>

----------------------------------------------------------------------------
\* Rendering: values derived from props and state on every render.

\* Array.prototype.findIndex with o.value === v: 0-based, -1 when absent.
findIndex(opts, v) ==
    IF \E k \in 1..Len(opts) : opts[k].value = v
    THEN (CHOOSE k \in 1..Len(opts) :
            /\ opts[k].value = v
            /\ \A m \in 1..(k - 1) : opts[m].value # v) - 1
    ELSE -1

\* idxSelected kept by the control itself: the option it notified last, not
\* the one the Host reports.
idxSelectedCached ==
    Max(0, findIndex(options, IF fired = <<>> THEN selected ELSE fired[Len(fired)]))

idxSelected == Max(0, findIndex(options, selected))

\* options.find(o => o.value === selected)?.label || placeholder
categorySelectedLabel ==
    LET k == findIndex(options, selected)
    IN  IF k >= 0 /\ options[k + 1].label # <<>>
        THEN options[k + 1].label
        ELSE placeholder

\* options[idxSelected]?.label ?? labels.mostRecent
sortSelectedLabel ==
    IF idxSelected < Len(options)
    THEN options[idxSelected + 1].label
    ELSE options[1].label

selectedLabel ==
    IF site = "category" THEN categorySelectedLabel ELSE sortSelectedLabel

\* aria-expanded of the trigger.
ariaExpanded == isOpen

\* activeDescendant counted from 1.
activeDescendantOneBased == idxSelected + 1

\* aria-activedescendant of the listbox: the row whose id it names,
\* `cat-${idxSelected}` / `sort-${idxSelected}`.
activeDescendant == idxSelected

\* aria-selected of option row r (0-based).
ariaSelected(r) == selected = options[r + 1].value

\* Rows the list renders: none while closed.
Rows == IF isOpen THEN 0..(Len(options) - 1) ELSE {}

\* Elements of the page: the trigger button, the list container, an option
\* row, the overlay, anything outside the control; noElement for an event
\* that has no target.
onTrigger == [el |-> "trigger", row |-> -1]
onList == [el |-> "list", row |-> -1]
onOutside == [el |-> "outside", row |-> -1]
onOverlay == [el |-> "overlay", row |-> -1]
onOption(r) == [el |-> "option", row |-> r]
noElement == [el |-> "none", row |-> -1]

\* The elements that can hold the focus in the current render.
Elements ==
    {onOutside, onTrigger}
    \cup (IF isOpen THEN {onList} ELSE {})
    \cup {onOption(r) : r \in Rows}

\* Focus after the list has been removed without a call of btnRef.focus():
\* an element that leaves the document loses the focus.
AfterUnmount(f) == IF f.el \in {"list", "option"} THEN onOutside ELSE f

----------------------------------------------------------------------------
\* Index arithmetic of onKeyDown (n > 0; with n = 0 the result is NaN).

\* NextIndex without the wrap-around: the last option is a dead end.
NextIndexClamped(i, n) == IF i + 1 < n THEN i + 1 ELSE i

NextIndex(i, n) == (i + 1) % n

\* PrevIndex without the wrap-around: the first option is a dead end.
PrevIndexClamped(i, n) == Max(0, i - 1)

PrevIndex(i, n) == (i - 1 + n) % n

\* What the last event was and what it found: the key pressed or the kind of
\* event, whether the list was open, the element the event was delivered to
\* (the focused element for a key press), the length of the notification log,
\* and the calls the handler made, in order.
Event(name, target, did) ==
    [name |-> name, open |-> isOpen, target |-> target, n0 |-> Len(fired),
     did |-> did]

NoRun == /\ runStart' = 0
         /\ runLen' = 0
         /\ runBase' = 0

----------------------------------------------------------------------------
Init ==
    /\ site \in {"category", "sort"}
    /\ options \in IF site = "category" THEN CategoryOptionSets ELSE SortOptionSets
    /\ Labelled(options)
    /\ selected \in SelectedValues
    /\ isOpen = FALSE
    /\ focus = onOutside
    /\ effectPending = TRUE
    /\ fired = <<>>
    /\ applied = 0
    /\ threw = FALSE
    /\ lastEvent = [name |-> "mount", open |-> FALSE, target |-> noElement,
                    n0 |-> 0, did |-> <<>>]
    /\ runStart = 0
    /\ runLen = 0
    /\ runBase = 0
    /\ clicks = 0
    /\ sort = [isOpen |-> FALSE, focus |-> onOutside, effectPending |-> TRUE,
               fired |-> <<>>, did |-> <<>>]
    /\ email = <<>>
    /\ message = ""
    /\ error = ""
    /\ isLoading = FALSE
    /\ request = <<>>
    /\ posts = 0
    /\ formEvent = [name |-> "mount", posts0 |-> 0, email |-> <<>>,
                    body |-> [has |-> FALSE, message |-> ""], kind |-> "none"]

\* FocusEffect without the test of isOpen.
FocusEffectUnconditional ==
    /\ effectPending
    /\ effectPending' = FALSE
    /\ focus' = onList
    /\ threw' = FALSE
    /\ lastEvent' = Event("effect", noElement, <<"focusList">>)
    /\ NoRun
    /\ UNCHANGED <<site, options, selected, isOpen, fired, applied>>

\* useEffect(() => { if (isOpen) listRef.current?.focus(); }, [isOpen])
FocusEffect ==
    /\ effectPending
    /\ effectPending' = FALSE
    /\ focus' = IF isOpen THEN onList ELSE focus
    /\ threw' = FALSE
    /\ lastEvent' = Event("effect", noElement, IF isOpen THEN <<"focusList">> ELSE <<>>)
    /\ NoRun
    /\ UNCHANGED <<site, options, selected, isOpen, fired, applied>>

\* TriggerClick that only opens: setIsOpen(true).
TriggerClickOpens ==
    /\ ~effectPending
    /\ isOpen' = TRUE
    /\ effectPending' = ~isOpen
    /\ UNCHANGED focus
    /\ threw' = FALSE
    /\ lastEvent' = Event("click", onTrigger, <<"setIsOpen">>)
    /\ NoRun
    /\ UNCHANGED <<site, options, selected, fired, applied>>

\* Trigger onClick: setIsOpen(v => !v)
TriggerClick ==
    /\ ~effectPending
    /\ isOpen' = ~isOpen
    /\ effectPending' = TRUE
    /\ focus' = IF isOpen THEN AfterUnmount(focus) ELSE focus
    /\ threw' = FALSE
    /\ lastEvent' = Event("click", onTrigger, <<"setIsOpen">>)
    /\ NoRun
    /\ UNCHANGED <<site, options, selected, fired, applied>>

\* OptionClick that notifies only when the row is not the selected one.
OptionClickSkipsSelected(r) ==
    /\ ~effectPending
    /\ r \in Rows
    /\ Len(fired) < MaxFired
    /\ fired' = IF options[r + 1].value = selected
                THEN fired
                ELSE Append(fired, options[r + 1].value)
    /\ isOpen' = FALSE
    /\ effectPending' = TRUE
    /\ focus' = onTrigger
    /\ threw' = FALSE
    /\ lastEvent' = Event("click", onOption(r), <<"onChange", "setIsOpen", "focusTrigger">>)
    /\ NoRun
    /\ UNCHANGED <<site, options, selected, applied>>

\* Option row onClick: onChange(opt.value); setIsOpen(false); btnRef.current?.focus()
OptionClick(r) ==
    /\ ~effectPending
    /\ r \in Rows
    /\ Len(fired) < MaxFired
    /\ fired' = Append(fired, options[r + 1].value)
    /\ isOpen' = FALSE
    /\ effectPending' = TRUE
    /\ focus' = onTrigger
    /\ threw' = FALSE
    /\ lastEvent' = Event("click", onOption(r), <<"onChange", "setIsOpen", "focusTrigger">>)
    /\ NoRun
    /\ UNCHANGED <<site, options, selected, applied>>

\* OverlayClick that commits the current option before closing.
OverlayClickCommits ==
    /\ ~effectPending
    /\ Len(fired) < MaxFired
    /\ fired' = IF isOpen /\ Len(options) > 0
                THEN Append(fired, options[idxSelected + 1].value)
                ELSE fired
    /\ isOpen' = FALSE
    /\ effectPending' = isOpen
    /\ focus' = IF isOpen THEN AfterUnmount(focus) ELSE focus
    /\ threw' = FALSE
    /\ lastEvent' = Event("click", onOverlay, <<"onChange", "setIsOpen">>)
    /\ NoRun
    /\ UNCHANGED <<site, options, selected, applied>>

\* OverlayClick that toggles, as the trigger does: setIsOpen(v => !v).
OverlayClickToggles ==
    /\ ~effectPending
    /\ isOpen' = ~isOpen
    /\ effectPending' = TRUE
    /\ focus' = IF isOpen THEN AfterUnmount(focus) ELSE focus
    /\ threw' = FALSE
    /\ lastEvent' = Event("click", onOverlay, <<"setIsOpen">>)
    /\ NoRun
    /\ UNCHANGED <<site, options, selected, fired, applied>>

\* Overlay onClick: setIsOpen(false). The overlay is rendered only while
\* open; a click delivered to it after the close runs the same closure.
OverlayClick ==
    /\ ~effectPending
    /\ isOpen' = FALSE
    /\ effectPending' = isOpen
    /\ focus' = IF isOpen THEN AfterUnmount(focus) ELSE focus
    /\ threw' = FALSE
    /\ lastEvent' = Event("click", onOverlay, <<"setIsOpen">>)
    /\ NoRun
    /\ UNCHANGED <<site, options, selected, fired, applied>>

----------------------------------------------------------------------------
\* onKeyDown of the wrapper: key presses bubble to it from the trigger, the
\* list and the option rows. A press is handled to completion, the browser's
\* default action included: Enter or Space on a focused button clicks it
\* unless the handler called e.preventDefault().

\* KeyDownClosed in which an Arrow key opens the list.
KeyDownClosedArrowOpens(key) ==
    /\ ~effectPending
    /\ key \in Keys
    /\ focus.el # "outside"
    /\ ~isOpen
    /\ IF (key \in ActivationKeys /\ focus.el = "trigger") \/ key \in {"ArrowDown", "ArrowUp"}
       THEN /\ isOpen' = TRUE
            /\ effectPending' = TRUE
            /\ lastEvent' = Event(key, focus, <<"setIsOpen">>)
       ELSE /\ UNCHANGED <<isOpen, effectPending>>
            /\ lastEvent' = Event(key, focus, <<>>)
    /\ threw' = FALSE
    /\ NoRun
    /\ UNCHANGED <<site, options, selected, focus, fired, applied>>

\* KeyDownClosed without `if (!isOpen) return`: the Arrow keys navigate
\* while the list is closed.
KeyDownClosedNavigates(key) ==
    /\ ~effectPending
    /\ key \in Keys
    /\ focus.el # "outside"
    /\ ~isOpen
    /\ Len(fired) < MaxFired
    /\ IF key \in ActivationKeys /\ focus.el = "trigger"
       THEN /\ isOpen' = TRUE
            /\ effectPending' = TRUE
            /\ lastEvent' = Event(key, focus, <<"setIsOpen">>)
       ELSE /\ UNCHANGED <<isOpen, effectPending>>
            /\ lastEvent' = Event(key, focus, <<>>)
    /\ fired' = IF key \in {"ArrowDown", "ArrowUp"} /\ Len(options) > 0
                THEN Append(fired, options[((idxSelected + 1) % Len(options)) + 1].value)
                ELSE fired
    /\ threw' = FALSE
    /\ NoRun
    /\ UNCHANGED <<site, options, selected, focus, applied>>

\* if (!isOpen) return;   nothing is prevented, so Enter/Space on the
\* trigger clicks it: setIsOpen(v => !v).
KeyDownClosed(key) ==
    /\ ~effectPending
    /\ key \in Keys
    /\ focus.el # "outside"
    /\ ~isOpen
    /\ IF key \in ActivationKeys /\ focus.el = "trigger"
       THEN /\ isOpen' = TRUE
            /\ effectPending' = TRUE
            /\ lastEvent' = Event(key, focus, <<"setIsOpen">>)
       ELSE /\ UNCHANGED <<isOpen, effectPending>>
            /\ lastEvent' = Event(key, focus, <<>>)
    /\ threw' = FALSE
    /\ NoRun
    /\ UNCHANGED <<site, options, selected, focus, fired, applied>>

\* KeyEscape without btnRef.current?.focus().
KeyEscapeKeepsFocus ==
    /\ ~effectPending
    /\ focus.el # "outside"
    /\ isOpen
    /\ isOpen' = FALSE
    /\ effectPending' = TRUE
    /\ focus' = AfterUnmount(focus)
    /\ threw' = FALSE
    /\ lastEvent' = Event("Escape", focus, <<"setIsOpen">>)
    /\ NoRun
    /\ UNCHANGED <<site, options, selected, fired, applied>>

\* if (e.key === "Escape") { setIsOpen(false); btnRef.current?.focus(); }
KeyEscape ==
    /\ ~effectPending
    /\ focus.el # "outside"
    /\ isOpen
    /\ isOpen' = FALSE
    /\ effectPending' = TRUE
    /\ focus' = onTrigger
    /\ threw' = FALSE
    /\ lastEvent' = Event("Escape", focus, <<"setIsOpen", "focusTrigger">>)
    /\ NoRun
    /\ UNCHANGED <<site, options, selected, fired, applied>>

\* KeyArrowDown that drops a press made while the Host has not yet applied
\* the previous notification.
KeyArrowDownCoalesced ==
    /\ ~effectPending
    /\ focus.el # "outside"
    /\ isOpen
    /\ Len(options) > 0
    /\ Len(fired) < MaxFired
    /\ fired' = IF applied < Len(fired)
                THEN fired
                ELSE Append(fired, options[NextIndex(Max(0, idxSelected), Len(options)) + 1].value)
    /\ threw' = FALSE
    /\ lastEvent' = Event("ArrowDown", focus, <<"preventDefault", "onChange">>)
    /\ NoRun
    /\ UNCHANGED <<site, options, selected, isOpen, focus, effectPending, applied>>

\* if (e.key === "ArrowDown") { e.preventDefault();
\*   const next = options[(i + 1) % n]; onChange(next.value); }
\* With n = 0 the index is NaN, next is undefined and next.value throws.
KeyArrowDown ==
    /\ ~effectPending
    /\ focus.el # "outside"
    /\ isOpen
    /\ LET n == Len(options)
           i == Max(0, idxSelected)
       IN  IF n = 0
           THEN /\ threw' = TRUE
                /\ lastEvent' = Event("ArrowDown", focus, <<"preventDefault", "throw">>)
                /\ NoRun
                /\ UNCHANGED fired
           ELSE /\ Len(fired) < MaxFired
                /\ fired' = Append(fired, options[NextIndex(i, n) + 1].value)
                /\ threw' = FALSE
                /\ lastEvent' = Event("ArrowDown", focus, <<"preventDefault", "onChange">>)
                /\ IF applied = Len(fired)
                   THEN IF runLen = 0
                        THEN /\ runStart' = i
                             /\ runLen' = 1
                             /\ runBase' = Len(fired)
                        ELSE /\ runLen' = runLen + 1
                             /\ UNCHANGED <<runStart, runBase>>
                   ELSE NoRun
    /\ UNCHANGED <<site, options, selected, isOpen, focus, effectPending, applied>>

\* KeyArrowUp reading prev?.value: with no option it notifies undefined
\* (written 0, the value no option carries) instead of throwing.
KeyArrowUpOptional ==
    /\ ~effectPending
    /\ focus.el # "outside"
    /\ isOpen
    /\ Len(fired) < MaxFired
    /\ fired' = IF Len(options) = 0
                THEN Append(fired, 0)
                ELSE Append(fired, options[PrevIndex(Max(0, idxSelected), Len(options)) + 1].value)
    /\ threw' = FALSE
    /\ lastEvent' = Event("ArrowUp", focus, <<"preventDefault", "onChange">>)
    /\ NoRun
    /\ UNCHANGED <<site, options, selected, isOpen, focus, effectPending, applied>>

\* if (e.key === "ArrowUp") { e.preventDefault();
\*   const prev = options[(i - 1 + n) % n]; onChange(prev.value); }
KeyArrowUp ==
    /\ ~effectPending
    /\ focus.el # "outside"
    /\ isOpen
    /\ LET n == Len(options)
           i == Max(0, idxSelected)
       IN  IF n = 0
           THEN /\ threw' = TRUE
                /\ lastEvent' = Event("ArrowUp", focus, <<"preventDefault", "throw">>)
                /\ UNCHANGED fired
           ELSE /\ Len(fired) < MaxFired
                /\ fired' = Append(fired, options[PrevIndex(i, n) + 1].value)
                /\ threw' = FALSE
                /\ lastEvent' = Event("ArrowUp", focus, <<"preventDefault", "onChange">>)
    /\ NoRun
    /\ UNCHANGED <<site, options, selected, isOpen, focus, effectPending, applied>>

\* KeyEnterSpace without e.preventDefault(): after the handler the browser
\* clicks the focused button, an option row (its onClick notifies) or the
\* trigger (its onClick toggles the flag the handler has just cleared).
KeyEnterSpaceNoPrevent(key) ==
    /\ ~effectPending
    /\ key \in ActivationKeys
    /\ focus.el # "outside"
    /\ isOpen
    /\ Len(fired) < MaxFired
    /\ isOpen' = (focus.el = "trigger")
    /\ effectPending' = (focus.el # "trigger")
    /\ focus' = onTrigger
    /\ fired' = IF focus.el = "option"
                THEN Append(fired, options[focus.row + 1].value)
                ELSE fired
    /\ threw' = FALSE
    /\ lastEvent' = Event(key, focus, <<"setIsOpen", "focusTrigger">>)
    /\ NoRun
    /\ UNCHANGED <<site, options, selected, applied>>

\* if (e.key === "Enter" || e.key === " ") { e.preventDefault();
\*   setIsOpen(false); btnRef.current?.focus(); }
\* The default action is prevented: the focused button is not clicked.
KeyEnterSpace(key) ==
    /\ ~effectPending
    /\ key \in ActivationKeys
    /\ focus.el # "outside"
    /\ isOpen
    /\ isOpen' = FALSE
    /\ effectPending' = TRUE
    /\ focus' = onTrigger
    /\ threw' = FALSE
    /\ lastEvent' = Event(key, focus, <<"preventDefault", "setIsOpen", "focusTrigger">>)
    /\ NoRun
    /\ UNCHANGED <<site, options, selected, fired, applied>>

----------------------------------------------------------------------------
\* The Host and the user.

\* The Host stores the value of the oldest notification it has not applied
\* and re-renders the control with it. A Host that ignores the notifications
\* is one that never takes this step.
HostApply ==
    /\ ~effectPending
    /\ applied < Len(fired)
    /\ selected' = fired[applied + 1]
    /\ applied' = applied + 1
    /\ threw' = FALSE
    /\ lastEvent' = Event("hostApply", noElement, <<>>)
    /\ UNCHANGED <<site, options, isOpen, focus, effectPending, fired,
                   runStart, runLen, runBase>>

\* The user moves the keyboard focus (Tab, Shift+Tab, pointer) to an element
\* of the page that exists in the current render.
UserMovesFocus(f) ==
    /\ ~effectPending
    /\ f \in Elements
    /\ f # focus
    /\ focus' = f
    /\ threw' = FALSE
    /\ lastEvent' = Event("focus", f, <<>>)
    /\ NoRun
    /\ UNCHANGED <<site, options, selected, isOpen, effectPending, fired, applied>>

\* clicks counts the trigger clicks made since mount as long as the user has
\* done nothing else and at most MaxClicks of them; it is -1 from then on.
\* The focus effect is the component's own step, not an event.
TriggerClicked ==
    clicks' = IF clicks \in 0..(MaxClicks - 1) THEN clicks + 1 ELSE -1

OtherEvent == clicks' = -1

\* A page that shows one dropdown: no second control, no reset form.
DropdownAlone == UNCHANGED <<sort, email, message, error, isLoading, request,
                             posts, formEvent>>

Next ==
    \/ FocusEffect /\ UNCHANGED clicks /\ DropdownAlone
    \/ TriggerClick /\ TriggerClicked /\ DropdownAlone
    \/ (\E r \in 0..(MaxN - 1) : OptionClick(r)) /\ OtherEvent /\ DropdownAlone
    \/ OverlayClick /\ OtherEvent /\ DropdownAlone
    \/ (\E key \in Keys : KeyDownClosed(key)) /\ OtherEvent /\ DropdownAlone
    \/ KeyEscape /\ OtherEvent /\ DropdownAlone
    \/ KeyArrowDown /\ OtherEvent /\ DropdownAlone
    \/ KeyArrowUp /\ OtherEvent /\ DropdownAlone
    \/ (\E key \in Keys : KeyEnterSpace(key)) /\ OtherEvent /\ DropdownAlone
    \/ HostApply /\ OtherEvent /\ DropdownAlone
    \/ (\E f \in Elements : UserMovesFocus(f)) /\ OtherEvent /\ DropdownAlone

Spec == Init /\ [][Next]_vars

----------------------------------------------------------------------------
\* A SortFilter mounted beside a CategoryFilter that is given SortFilter's
\* two options: the same user events are delivered to both and the Host
\* passes both the same selected value. The variables above hold the
\* CategoryFilter; sort holds the SortFilter's isOpen, the focus within it,
\* its pending effect, the values it passed to onChange and the calls its
\* last handler made. Each handler below is SortFilter's own code.

\* const options = [{ value: "mostRecent", label: labels.mostRecent },
\*                  { value: "oldest", label: labels.oldest }]
sortOptions == SortOptions([mostRecent |-> LabelOf(1), oldest |-> LabelOf(2)])

\* Math.max(0, options.findIndex(o => o.value === selected))
sortIdxSelected(sel) == Max(0, findIndex(sortOptions, sel))

\* sortNextIndex without the wrap-around.
sortNextIndexClamped(i, n) == IF i + 1 < n THEN i + 1 ELSE i

\* (i + 1) % n
sortNextIndex(i, n) == (i + 1) % n

\* (i - 1 + n) % n
sortPrevIndex(i, n) == (i - 1 + n) % n

\* const onKeyDown = (e) => { if (!isOpen) return; ... }
sortOnKeyDown(s, key, sel) ==
    LET n == Len(sortOptions)
        i == Max(0, sortIdxSelected(sel))
    IN  IF ~s.isOpen
        THEN [s EXCEPT !.did = <<>>]
        ELSE IF key = "Escape"
        THEN [s EXCEPT !.isOpen = FALSE, !.effectPending = TRUE,
                       !.focus = onTrigger,
                       !.did = <<"setIsOpen", "focusTrigger">>]
        ELSE IF key = "ArrowDown"
        THEN [s EXCEPT !.fired = Append(@, sortOptions[sortNextIndex(i, n) + 1].value),
                       !.did = <<"preventDefault", "onChange">>]
        ELSE IF key = "ArrowUp"
        THEN [s EXCEPT !.fired = Append(@, sortOptions[sortPrevIndex(i, n) + 1].value),
                       !.did = <<"preventDefault", "onChange">>]
        ELSE IF key \in ActivationKeys
        THEN [s EXCEPT !.isOpen = FALSE, !.effectPending = TRUE,
                       !.focus = onTrigger,
                       !.did = <<"preventDefault", "setIsOpen", "focusTrigger">>]
        ELSE [s EXCEPT !.did = <<>>]

\* onClick={() => setIsOpen(v => !v)}
sortTriggerOnClick(s) ==
    [s EXCEPT !.isOpen = ~s.isOpen, !.effectPending = TRUE,
              !.focus = IF s.isOpen THEN AfterUnmount(s.focus) ELSE s.focus,
              !.did = <<"setIsOpen">>]

\* A key press on the focused element: onKeyDown, then the browser's default
\* action unless it was prevented, the click of the trigger that Enter or
\* Space makes while the list is closed.
sortKeyPress(s, key, sel) ==
    IF ~s.isOpen /\ key \in ActivationKeys /\ s.focus = onTrigger
    THEN sortTriggerOnClick(sortOnKeyDown(s, key, sel))
    ELSE sortOnKeyDown(s, key, sel)

\* onClick={() => { onChange(opt.value); setIsOpen(false); btnRef.current?.focus(); }}
\* Row r is rendered only while open.
sortOptionOnClick(s, r) ==
    IF s.isOpen /\ r < Len(sortOptions)
    THEN [s EXCEPT !.fired = Append(@, sortOptions[r + 1].value),
                   !.isOpen = FALSE, !.effectPending = TRUE,
                   !.focus = onTrigger,
                   !.did = <<"onChange", "setIsOpen", "focusTrigger">>]
    ELSE s

\* {isOpen && <div ... onClick={() => setIsOpen(false)} />}
sortOverlayOnClick(s) ==
    [s EXCEPT !.isOpen = FALSE, !.effectPending = s.isOpen,
              !.focus = IF s.isOpen THEN AfterUnmount(s.focus) ELSE s.focus,
              !.did = <<"setIsOpen">>]

\* useEffect(() => { if (isOpen) listRef.current?.focus(); }, [isOpen])
sortFocusEffect(s) ==
    IF s.effectPending
    THEN [s EXCEPT !.effectPending = FALSE,
                   !.focus = IF s.isOpen THEN onList ELSE s.focus,
                   !.did = IF s.isOpen THEN <<"focusList">> ELSE <<>>]
    ELSE s

\* The elements that can hold the focus in SortFilter's current render.
sortElements(s) ==
    {onOutside, onTrigger}
    \cup (IF s.isOpen THEN {onList} \cup {onOption(r) : r \in 0..(Len(sortOptions) - 1)}
          ELSE {})

\* The user moves the focus to the same element of the SortFilter.
sortMovesFocus(s, f) ==
    IF f \in sortElements(s)
    THEN [s EXCEPT !.focus = f, !.did = <<>>]
    ELSE s

\* A re-render with a new selected prop runs no handler.
sortRerender(s) == [s EXCEPT !.did = <<>>]

PairIdle == UNCHANGED <<clicks, email, message, error, isLoading, request,
                        posts, formEvent>>

InitPair ==
    /\ Init
    /\ site = "category"
    /\ options = sortOptions

PairFocusEffect ==
    FocusEffect /\ sort' = sortFocusEffect(sort) /\ PairIdle

PairTriggerClick ==
    TriggerClick /\ sort' = sortTriggerOnClick(sort) /\ PairIdle

PairOptionClick(r) ==
    OptionClick(r) /\ sort' = sortOptionOnClick(sort, r) /\ PairIdle

PairOverlayClick ==
    OverlayClick /\ sort' = sortOverlayOnClick(sort) /\ PairIdle

PairKeyDownClosed(key) ==
    KeyDownClosed(key) /\ sort' = sortKeyPress(sort, key, selected) /\ PairIdle

PairKeyEscape ==
    KeyEscape /\ sort' = sortKeyPress(sort, "Escape", selected) /\ PairIdle

PairKeyArrowDown ==
    KeyArrowDown /\ sort' = sortKeyPress(sort, "ArrowDown", selected) /\ PairIdle

PairKeyArrowUp ==
    KeyArrowUp /\ sort' = sortKeyPress(sort, "ArrowUp", selected) /\ PairIdle

PairKeyEnterSpace(key) ==
    KeyEnterSpace(key) /\ sort' = sortKeyPress(sort, key, selected) /\ PairIdle

PairHostApply ==
    HostApply /\ sort' = sortRerender(sort) /\ PairIdle

PairUserMovesFocus(f) ==
    UserMovesFocus(f) /\ sort' = sortMovesFocus(sort, f) /\ PairIdle

NextPair ==
    \/ PairFocusEffect
    \/ PairTriggerClick
    \/ \E r \in 0..(MaxN - 1) : PairOptionClick(r)
    \/ PairOverlayClick
    \/ \E key \in Keys : PairKeyDownClosed(key)
    \/ PairKeyEscape
    \/ PairKeyArrowDown
    \/ PairKeyArrowUp
    \/ \E key \in Keys : PairKeyEnterSpace(key)
    \/ PairHostApply
    \/ \E f \in Elements : PairUserMovesFocus(f)

SpecPair == InitPair /\ [][NextPair]_vars

----------------------------------------------------------------------------
\* The password-reset page, Forgotpassword.tsx. The text of the email field
\* is a sequence of characters; message and error are the strings shown.

\* The characters the user types: a letter and the at sign.
EmailTexts == UNION {[1..k -> {"a", "@"}] : k \in 0..MaxEmailLen}

\* <input type="email" required>: the browser submits the form only when the
\* field holds one at sign with text before it and after it.
validEmail(e) ==
    \E k \in 2..(Len(e) - 1) :
        /\ e[k] = "@"
        /\ \A j \in 1..Len(e) : j # k => e[j] # "@"

DefaultSuccess == "Password reset link sent!"
GenericError == "Error sending reset email. Please try again."

\* response.data of a 2xx response: a JSON object whose message field is
\* absent, the empty string or a text.
Bodies ==
    {[has |-> FALSE, message |-> ""]}
    \cup {[has |-> TRUE, message |-> m] : m \in {"", "Check your inbox"}}

\* Why axios.post rejects: no response at all, or a response whose status
\* is not 2xx.
RejectionKinds == {"network", "status4xx", "status5xx"}

FormEvent(name, body, kind) ==
    [name |-> name, posts0 |-> posts, email |-> email, body |-> body, kind |-> kind]

NoBody == [has |-> FALSE, message |-> ""]

\* onChange={(e) => setEmail(e.target.value)}
SetEmail(e) ==
    /\ e \in EmailTexts
    /\ e # email
    /\ email' = e
    /\ UNCHANGED <<message, error, isLoading, request, posts, formEvent>>

\* Submit without setError(""): the error of the previous attempt stays.
SubmitKeepsError ==
    /\ ~isLoading
    /\ validEmail(email)
    /\ posts < MaxSubmits
    /\ message' = ""
    /\ isLoading' = TRUE
    /\ request' = <<[email |-> email]>>
    /\ posts' = posts + 1
    /\ formEvent' = FormEvent("submit", NoBody, "none")
    /\ UNCHANGED <<email, error>>

\* handleForgotPassword up to the await: e.preventDefault(); setMessage("");
\* setError(""); setIsLoading(true); axios.post(url, { email }).
\* The submit button is disabled while isLoading, which also blocks the
\* implicit submission by Enter in the field.
Submit ==
    /\ ~isLoading
    /\ validEmail(email)
    /\ posts < MaxSubmits
    /\ message' = ""
    /\ error' = ""
    /\ isLoading' = TRUE
    /\ request' = <<[email |-> email]>>
    /\ posts' = posts + 1
    /\ formEvent' = FormEvent("submit", NoBody, "none")
    /\ UNCHANGED email

\* Resolve with ?? in place of ||: an empty message is shown as it is.
ResolveNullish(body) ==
    /\ request # <<>>
    /\ body \in Bodies
    /\ message' = IF body.has THEN body.message ELSE DefaultSuccess
    /\ isLoading' = FALSE
    /\ request' = <<>>
    /\ formEvent' = FormEvent("resolve", body, "none")
    /\ UNCHANGED <<email, error, posts>>

\* The POST is answered with a 2xx:
\* setMessage(response.data.message || "Password reset link sent!");
\* finally setIsLoading(false).
Resolve(body) ==
    /\ request # <<>>
    /\ body \in Bodies
    /\ message' = IF body.has /\ body.message # "" THEN body.message ELSE DefaultSuccess
    /\ isLoading' = FALSE
    /\ request' = <<>>
    /\ formEvent' = FormEvent("resolve", body, "none")
    /\ UNCHANGED <<email, error, posts>>

\* The POST is rejected: catch { setError("Error sending reset email. Please
\* try again.") } finally { setIsLoading(false) }. Nothing is sent again.
Reject(kind) ==
    /\ request # <<>>
    /\ kind \in RejectionKinds
    /\ error' = GenericError
    /\ isLoading' = FALSE
    /\ request' = <<>>
    /\ formEvent' = FormEvent("reject", NoBody, kind)
    /\ UNCHANGED <<email, message, posts>>

\* The page shows no dropdown that takes part in the reset flow.
FormAlone == UNCHANGED <<site, options, selected, isOpen, focus, effectPending,
                         fired, applied, threw, lastEvent, runStart, runLen,
                         runBase, clicks, sort>>

InitReset ==
    /\ Init
    /\ site = "sort"
    /\ selected = 1

NextReset ==
    \/ (\E e \in EmailTexts : SetEmail(e)) /\ FormAlone
    \/ Submit /\ FormAlone
    \/ (\E body \in Bodies : Resolve(body)) /\ FormAlone
    \/ (\E kind \in RejectionKinds : Reject(kind)) /\ FormAlone

SpecReset == InitReset /\ [][NextReset]_vars

----------------------------------------------------------------------------
\* Properties.

Last(q) == q[Len(q)]

\* The event that led to the current state is a press of key k, or a click
\* on element e, and it found the list open.
PressedOpen(k) == lastEvent.name = k /\ lastEvent.open
ClickedOpen(e) == lastEvent.name = "click" /\ lastEvent.target.el = e /\ lastEvent.open

\* The handler of the last event fired exactly one notification / none.
FiredOne == Len(fired) = lastEvent.n0 + 1
FiredNone == Len(fired) = lastEvent.n0

\* C1: a run of k ArrowDown presses while open, each pressed after the Host
\* applied the previous notification, started at index i: the list is still
\* open, exactly k notifications were fired during the run, the j-th is the
\* value of option (i + j) mod N, and once the Host has applied the last one
\* the selection index is (i + k) mod N.
C1_ArrowDownRun ==
    runLen > 0 =>
        /\ isOpen
        /\ Len(options) >= 1
        /\ Len(fired) = runBase + runLen
        /\ \A j \in 1..runLen :
              fired[runBase + j] = options[((runStart + j) % Len(options)) + 1].value
        /\ (applied = Len(fired) =>
              idxSelected = (runStart + runLen) % Len(options))

\* A run of at least two presses that wrapped past the last option, applied.
C1_Witness ==
    /\ runLen >= 2
    /\ Len(options) >= 2
    /\ runStart + runLen >= Len(options)
    /\ applied = Len(fired)

\* C2: ArrowUp pressed while open with N >= 1 leaves the list open and fires
\* exactly one notification, the value of option (current_index - 1 + N) mod N;
\* from index 0 that is option N - 1.
C2_ArrowUp ==
    (PressedOpen("ArrowUp") /\ Len(options) >= 1) =>
        /\ isOpen
        /\ FiredOne
        /\ ~threw
        /\ Last(fired) = options[((idxSelected - 1 + Len(options)) % Len(options)) + 1].value
        /\ (idxSelected = 0 => Last(fired) = options[Len(options)].value)

\* ArrowUp from index 0 of three options fired the last option.
C2_Witness ==
    /\ PressedOpen("ArrowUp")
    /\ Len(options) = 3
    /\ findIndex(options, selected) = 0
    /\ Last(fired) = options[3].value

\* C3: Escape pressed while open closes the list, returns the focus to the
\* trigger and fires no notification, whatever was fired before.
C3_Escape ==
    PressedOpen("Escape") =>
        /\ ~isOpen
        /\ focus = onTrigger
        /\ FiredNone
        /\ ~threw

\* Escape after two Arrow presses, pressed with the focus on the list.
C3_Witness ==
    /\ PressedOpen("Escape")
    /\ lastEvent.target = onList
    /\ lastEvent.n0 = 2
    /\ ~isOpen

\* C4: a click on an option row while open closes the list, fires exactly one
\* notification carrying that row's value (also for the selected row) and
\* returns the focus to the trigger; onChange is called before setIsOpen and
\* before the focus call.
C4_OptionClick ==
    ClickedOpen("option") =>
        LET did == lastEvent.did
            At(x) == {k \in 1..Len(did) : did[k] = x}
        IN  /\ ~isOpen
            /\ FiredOne
            /\ Last(fired) = options[lastEvent.target.row + 1].value
            /\ focus = onTrigger
            /\ Cardinality(At("onChange")) = 1
            /\ \A a \in At("onChange") :
                  \A b \in At("setIsOpen") \cup At("focusTrigger") : a < b
            /\ At("setIsOpen") # {}
            /\ At("focusTrigger") # {}

\* A click on the row that is already the selected one.
C4_Witness ==
    /\ ClickedOpen("option")
    /\ options[lastEvent.target.row + 1].value = selected
    /\ ~isOpen
    /\ focus = onTrigger

\* C5: a click on the overlay while open closes the list, fires no
\* notification and leaves the Host's selected value as it was.
C5_OverlayClick ==
    [][(isOpen /\ lastEvent'.name = "click" /\ lastEvent'.target = onOverlay) =>
          /\ isOpen' = FALSE
          /\ fired' = fired
          /\ selected' = selected
          /\ applied' = applied]_vars

\* The overlay was clicked while open, with a notification not yet applied.
C5_Witness ==
    /\ ClickedOpen("overlay")
    /\ ~isOpen
    /\ Len(fired) >= 1
    /\ applied < Len(fired)

\* C6: with an empty OptionSet an Arrow press while open is a no-op: nothing
\* is fired, no error is raised, the list stays open.
C6_EmptyArrowNoOp ==
    ((PressedOpen("ArrowDown") \/ PressedOpen("ArrowUp")) /\ Len(options) = 0) =>
        /\ FiredNone
        /\ ~threw
        /\ isOpen

\* The label a caller provides for a selected value that is no option's:
\* CategoryFilter's placeholder, SortFilter's labels.mostRecent.
DefaultLabel == IF site = "category" THEN placeholder ELSE options[1].label

\* C7: a selected value that is no option's raises no error: the label shown
\* is the default label, the index resolves to 0, ArrowDown fires option
\* 1 mod N and ArrowUp option N - 1; a selected value that is an option's
\* shows that option's label.
C7_InvalidSelected ==
    LET k == findIndex(options, selected)
    IN  /\ k < 0 =>
              /\ ~threw
              /\ selectedLabel = DefaultLabel
              /\ idxSelected = 0
              /\ PressedOpen("ArrowDown") =>
                    /\ FiredOne
                    /\ Last(fired) = options[(1 % Len(options)) + 1].value
              /\ PressedOpen("ArrowUp") =>
                    /\ FiredOne
                    /\ Last(fired) = options[Len(options)].value
        /\ k >= 0 => selectedLabel = options[k + 1].label

\* C8: Enter or Space pressed while open, on whichever element of the control,
\* closes the list, returns the focus to the trigger and fires nothing.
C8_EnterSpaceCloses ==
    (PressedOpen("Enter") \/ PressedOpen(" ")) =>
        /\ ~isOpen
        /\ focus = onTrigger
        /\ FiredNone
        /\ ~threw

\* Enter pressed with the focus on an option row that is not the selected one.
C8_Witness ==
    /\ PressedOpen("Enter")
    /\ lastEvent.target.el = "option"
    /\ options[lastEvent.target.row + 1].value # selected
    /\ ~isOpen

\* C9: Enter or Space on an option row while open closes the list, fires
\* exactly one notification with that row's value and returns the focus to
\* the trigger, as a click on that row does.
C9_RowActivation ==
    ((PressedOpen("Enter") \/ PressedOpen(" ")) /\ lastEvent.target.el = "option") =>
        /\ ~isOpen
        /\ FiredOne
        /\ Last(fired) = options[lastEvent.target.row + 1].value
        /\ focus = onTrigger

\* C10: Escape or an overlay click delivered while closed changes nothing:
\* the list stays closed, nothing is fired, the focus stays where it is, no
\* effect is scheduled and no error is raised.
C10_CloseIdempotent ==
    [][(~isOpen /\ (lastEvent'.name = "Escape"
                    \/ (lastEvent'.name = "click" /\ lastEvent'.target = onOverlay))) =>
          /\ isOpen' = FALSE
          /\ fired' = fired
          /\ focus' = focus
          /\ selected' = selected
          /\ effectPending' = effectPending
          /\ threw' = FALSE]_vars

\* The overlay click that lost the race against Escape: it arrives when
\* Escape has already closed the list.
C10_Witness ==
    /\ lastEvent.name = "click"
    /\ lastEvent.target = onOverlay
    /\ ~lastEvent.open
    /\ ~isOpen
    /\ focus = onTrigger

\* C11: the index of Arrow navigation is recomputed from the selected value
\* the Host reports at every press: an ArrowDown fires the value of option
\* (indexOf(selected) + 1) mod N and an ArrowUp that of option
\* (indexOf(selected) - 1 + N) mod N, whatever was notified before; a Host
\* that never applies a notification gets the same value at every press.
C11_AnchoredToHost ==
    LET n == Len(options)
        i == Max(0, findIndex(options, selected))
    IN  n >= 1 =>
            /\ PressedOpen("ArrowDown") =>
                  /\ FiredOne
                  /\ Last(fired) = options[((i + 1) % n) + 1].value
            /\ PressedOpen("ArrowUp") =>
                  /\ FiredOne
                  /\ Last(fired) = options[((i - 1 + n) % n) + 1].value

\* Two ArrowDown presses on three options with a Host that applied neither:
\* both fired the same value.
C11_Witness ==
    /\ PressedOpen("ArrowDown")
    /\ Len(options) = 3
    /\ applied = 0
    /\ Len(fired) = 2
    /\ fired[1] = fired[2]
    /\ fired[1] = options[((Max(0, findIndex(options, selected)) + 1) % 3) + 1].value

\* C12: the list is closed on mount, and a state that is open after an event
\* that found it closed comes from an activation of the trigger only: a
\* click on it, or Enter/Space pressed on it.
C12_OnlyTriggerOpens ==
    /\ lastEvent.name = "mount" => ~isOpen
    /\ (isOpen /\ ~lastEvent.open) =>
          /\ lastEvent.target = onTrigger
          /\ lastEvent.name \in {"click"} \cup ActivationKeys

\* The list was opened by Space pressed on the trigger.
C12_Witness ==
    /\ isOpen
    /\ ~lastEvent.open
    /\ lastEvent.name = " "
    /\ lastEvent.target = onTrigger

\* The accessibility surface of the open list agrees with itself: the
\* trigger's expanded flag is isOpen, exactly one rendered row is selected,
\* and the listbox's active-descendant names that row.
AriaConsistent ==
    /\ ariaExpanded = isOpen
    /\ Cardinality({r \in Rows : ariaSelected(r)}) = 1
    /\ activeDescendant \in Rows
    /\ ariaSelected(activeDescendant)

\* C13 as stated: AriaConsistent in every reachable open state.
C13_AriaAlways == isOpen => AriaConsistent

\* C13 amended: AriaConsistent in every open state whose selected value is
\* the value of an option; when it is no option's value, no row is selected
\* and the active-descendant names row 0.
C13_AriaWhenValid ==
    isOpen =>
        IF findIndex(options, selected) >= 0
        THEN AriaConsistent
        ELSE /\ ariaExpanded = isOpen
             /\ {r \in Rows : ariaSelected(r)} = {}
             /\ activeDescendant = 0

\* The open list re-rendered after the Host applied a notification, the
\* selected row not being the first.
C13_Witness ==
    /\ isOpen
    /\ lastEvent.name = "hostApply"
    /\ findIndex(options, selected) >= 1
    /\ ariaSelected(activeDescendant)

\* C15: the step that opens the list schedules the effect and leaves the
\* focus where it is; the effect is scheduled only by a change of isOpen and
\* runs once per schedule, after the change; it moves the focus to the list
\* when the list is open and moves nothing when it is closed; nothing but
\* the effect or the user moves the focus to the list.
C15_FocusAfterOpen ==
    [][/\ (~isOpen /\ isOpen') => (effectPending' /\ focus' = focus)
       /\ (~effectPending /\ effectPending') => isOpen' # isOpen
       /\ lastEvent'.name = "effect" =>
             /\ effectPending
             /\ ~effectPending'
             /\ isOpen' = isOpen
             /\ focus' = IF isOpen THEN onList ELSE focus
       /\ (focus' = onList /\ focus # onList) =>
             /\ isOpen
             /\ lastEvent'.name \in {"effect", "focus"}]_vars

\* The effect of a close that had returned the focus to the trigger has run:
\* the focus is still on the trigger.
C15_Witness ==
    /\ lastEvent.name = "effect"
    /\ ~isOpen
    /\ ~effectPending
    /\ focus = onTrigger
    /\ Len(fired) >= 1

\* C16: every Arrow press while open (N >= 1) fires its own notification,
\* also when the Host has not yet applied an earlier one; once the Host has
\* applied all of them, in order, its selected value is the last one fired.
C16_NoCoalescing ==
    /\ ((PressedOpen("ArrowDown") \/ PressedOpen("ArrowUp")) /\ Len(options) >= 1) =>
          FiredOne
    /\ (applied = Len(fired) /\ Len(fired) >= 1) => selected = Last(fired)

\* An ArrowDown handled while an earlier notification was not yet applied.
C16_Witness ==
    /\ PressedOpen("ArrowDown")
    /\ lastEvent.n0 >= 1
    /\ applied < lastEvent.n0
    /\ FiredOne

\* C18: every value passed to onChange is the value of an option of the
\* OptionSet of the render that handled the event.
C18_FiredAreOptionValues ==
    \A k \in 1..Len(fired) :
        \E a \in 1..Len(options) : options[a].value = fired[k]

\* Two notifications of different values, the last by a click on a row.
C18_Witness ==
    /\ Len(fired) = 2
    /\ fired[1] # fired[2]
    /\ lastEvent.name = "click"
    /\ FiredOne

\* C19: an Arrow key pressed while closed changes nothing: the list stays
\* closed, nothing is fired, the selected value is as before, no error.
C19_ClosedArrowsIgnored ==
    [][(~isOpen /\ lastEvent'.name \in {"ArrowDown", "ArrowUp"}) =>
          /\ isOpen' = FALSE
          /\ fired' = fired
          /\ selected' = selected
          /\ applied' = applied
          /\ focus' = focus
          /\ threw' = FALSE]_vars

\* ArrowUp pressed on the trigger of the closed list.
C19_Witness ==
    /\ lastEvent.name = "ArrowUp"
    /\ ~lastEvent.open
    /\ lastEvent.target = onTrigger
    /\ ~isOpen

\* C20: a pointer click on the trigger while the list is open closes it and
\* fires no notification; after n trigger clicks from mount, the user having
\* done nothing else, nothing has been fired and the list is open exactly
\* when n is odd.
C20_TriggerToggles ==
    /\ ClickedOpen("trigger") => ~isOpen /\ FiredNone
    /\ clicks >= 0 => /\ isOpen <=> clicks % 2 = 1
                      /\ fired = <<>>

\* Two trigger clicks from mount: the second found the list open.
C20_Witness ==
    /\ clicks = 2
    /\ ClickedOpen("trigger")
    /\ ~isOpen

\* C17: given SortFilter's two options, the same selected value (an option's
\* or not) and the same events, the SortFilter and the CategoryFilter are
\* open at the same times, have passed the same values to onChange in the
\* same order, hold the focus on the same element, have the same effect
\* pending, and their last handlers made the same calls.
C17_SameStateMachine ==
    /\ sort.isOpen = isOpen
    /\ sort.fired = fired
    /\ sort.focus = focus
    /\ sort.effectPending = effectPending
    /\ sort.did = lastEvent.did

\* Both controls have notified twice and have just been closed by a click on
\* an option row.
C17_Witness ==
    /\ site = "category"
    /\ options = sortOptions
    /\ Len(sort.fired) = 2
    /\ Last(sort.fired) = 2
    /\ lastEvent.name = "click"
    /\ lastEvent.target.el = "option"
    /\ ~sort.isOpen
    /\ sort.focus = onTrigger

\* C14: in the password-reset flow a submit issues exactly one POST carrying
\* the email and sets the loading flag; a rejection of the POST, whatever its
\* kind, leaves the one generic error string, no message, and issues no
\* further POST; a success leaves the response's message, or the default
\* success text when the message is absent or empty, and no error; both
\* outcomes clear the loading flag and leave no POST in flight.
C14_ResetOutcomes ==
    /\ formEvent.name = "submit" =>
        /\ posts = formEvent.posts0 + 1
        /\ request = <<[email |-> formEvent.email]>>
        /\ isLoading
        /\ message = "" /\ error = ""
    /\ formEvent.name = "reject" =>
        /\ error = GenericError
        /\ message = ""
        /\ ~isLoading
        /\ request = <<>>
        /\ posts = formEvent.posts0
    /\ formEvent.name = "resolve" =>
        /\ message = IF formEvent.body.has /\ formEvent.body.message # ""
                     THEN formEvent.body.message
                     ELSE DefaultSuccess
        /\ error = ""
        /\ ~isLoading
        /\ request = <<>>
        /\ posts = formEvent.posts0
    /\ isLoading <=> request # <<>>

\* A second submit has been answered by a 2xx with an empty message after
\* the first one was rejected.
C14_Witness ==
    /\ posts = 2
    /\ formEvent.name = "resolve"
    /\ formEvent.body = [has |-> TRUE, message |-> ""]
    /\ message = DefaultSuccess
    /\ ~isLoading

\* C21: in the password-reset form the success message and the error string
\* are never both non-empty, and from the start of a submit until its request
\* completes neither is shown: what the previous attempt left is cleared.
C21_MessageXorError ==
    /\ ~(message # "" /\ error # "")
    /\ isLoading => message = "" /\ error = ""

\* A second submit is in flight, started after the first attempt was rejected
\* and had left the error string.
C21_Witness ==
    /\ posts = 2
    /\ formEvent.name = "submit"
    /\ isLoading
    /\ message = ""
    /\ error = ""

====
